---- MODULE Spec2Model ----
(***************************************************************************)
(* Apple-Health-DS: the Libre glucose normalizer (glucose_processor.py)    *)
(* and the health/glucose merger (data_merger.py) as state machines.       *)
(*                                                                         *)
(* Conventions                                                             *)
(*   - an instant is an integer number of seconds since the Unix epoch;    *)
(*   - a glucose value is an integer number of 1/10000 mg/dL (Units), so   *)
(*     that 69.9999 mg/dL and 5.5 mmol/L * 18.0182 are exact;              *)
(*   - a float that is a quotient (a rate, a mean, minutes) is kept as the *)
(*     exact fraction [num, den] with den > 0;                             *)
(*   - a cell of a DataFrame, and an object field that may be None, is     *)
(*     <<>> when absent (NaN, NaT, None) and <<v>> when it holds v;        *)
(*   - a DataFrame is [columns |-> set of names, rows |-> sequence of      *)
(*     records of cells over those names].                                 *)
(***************************************************************************)
EXTENDS Integers, Sequences, FiniteSets, TLC

VARIABLES
    csv_file,           \* the Libre CSV export on disk (<<>>: no such file)
    raw_data,           \* LibreGlucoseProcessor.raw_data
    processed_data,     \* LibreGlucoseProcessor.processed_data
    health_in,          \* the caller's Apple Health frame
    glucose_in,         \* the caller's processed glucose frame
    apple_health_data,  \* HealthDataMerger.apple_health_data
    glucose_data,       \* HealthDataMerger.glucose_data
    merged_data,        \* HealthDataMerger.merged_data
    features_in,        \* the frame handed to add_contextual_features
    exported,           \* the file export_merged_data wrote (<<>>: none yet)
    ret                 \* what the last call returned or raised

vars == <<csv_file, raw_data, processed_data, health_in, glucose_in,
          apple_health_data, glucose_data, merged_data, features_in, exported, ret>>

-----------------------------------------------------------------------------
(* Nullable values, fractions, frames *)

None == <<>>
Some(v) == <<v>>
IsNone(o) == o = <<>>
NotNa(o) == o # <<>>
Get(o) == o[1]

Abs(n) == IF n < 0 THEN -n ELSE n
Min(S) == CHOOSE x \in S : \A y \in S : x <= y
Max(S) == CHOOSE x \in S : \A y \in S : x >= y

Rat(n, d) == [num |-> n, den |-> d]
\* fraction q compared with the integer k (q.den > 0)
RatGT(q, k) == q.num > k * q.den
RatLT(q, k) == q.num < k * q.den
RatGE(q, k) == q.num >= k * q.den
RatLE(q, k) == q.num <= k * q.den

Frame(cols, rows) == [columns |-> cols, rows |-> rows]
Range(s) == {s[i] : i \in 1..Len(s)}

\* units of glucose value per mg/dL
Units == 100 * 100
MgDl(n) == n * Units

DaySeconds == 24 * 3600

\* what a call left behind: the operation, its argument, the exception it
\* raised (<<>> when it returned) and the value it returned
Returned(op, arg, value) ==
    [op |-> op, arg |-> arg, raised |-> None, value |-> value]
Raised(op, arg, exc) ==
    [op |-> op, arg |-> arg, raised |-> Some(exc), value |-> None]

\* the exceptions raised: the class and the message (for a KeyError, the key
\* that was looked up)
ValueError(message) == [type |-> "ValueError", message |-> message]
KeyError(key) == [type |-> "KeyError", message |-> key]

-----------------------------------------------------------------------------
(* pandas primitives used by both classes *)

\* Series.between(left, right), inclusive on both sides; NaN is never between
Between(x, left, right) == x >= left /\ x <= right

\* DataFrame.sort_values(by): ascending, NaN/NaT last, rows with equal keys
\* in their input order
RECURSIVE InsertByKey(_, _, _)
InsertByKey(sorted, r, by) ==
    IF sorted = <<>> THEN <<r>>
    ELSE LET last == sorted[Len(sorted)]
             after == \/ IsNone(r[by])
                      \/ (NotNa(last[by]) /\ Get(last[by]) <= Get(r[by]))
         IN IF after THEN Append(sorted, r)
            ELSE Append(InsertByKey(SubSeq(sorted, 1, Len(sorted) - 1), r, by), last)

RECURSIVE SortRows(_, _)
SortRows(rows, by) ==
    IF rows = <<>> THEN <<>>
    ELSE InsertByKey(SortRows(SubSeq(rows, 1, Len(rows) - 1), by), rows[Len(rows)], by)

sort_values(df, by) == Frame(df.columns, SortRows(df.rows, by))

\* DataFrame.rename(columns=mapping): every column k becomes mapping[k]
RenameRow(r, mapping) ==
    [c \in {mapping[k] : k \in DOMAIN r} |-> r[CHOOSE k \in DOMAIN r : mapping[k] = c]]
rename(df, mapping) ==
    Frame({mapping[k] : k \in df.columns},
          [i \in 1..Len(df.rows) |-> RenameRow(df.rows[i], mapping)])

\* df[name] = series: the i-th row gets the i-th cell of the series
WithColumn(df, name, series) ==
    Frame(df.columns \cup {name},
          [i \in 1..Len(df.rows) |->
              LET r == df.rows[i]
              IN [c \in (DOMAIN r) \cup {name} |-> IF c = name THEN series[i] ELSE r[c]]])

\* df[mask]: the rows whose cell of the boolean series mask is true, in order
Filter(df, mask) ==
    LET kept == SelectSeq([i \in 1..Len(df.rows) |-> i], LAMBDA i : mask[i])
    IN Frame(df.columns, [j \in 1..Len(kept) |-> df.rows[kept[j]]])

\* Timestamp.hour and Timestamp.dayofweek (Monday = 0; 1970-01-01 was a Thursday)
HourOf(t) == (t % DaySeconds) \div 3600
DayOfWeek(t) == ((t \div DaySeconds) + 3) % 7

-----------------------------------------------------------------------------
(* LibreGlucoseProcessor *)

\* standardize_columns: the column-name table
ColumnMapping(name) ==
    CASE name = "Device Timestamp" -> "timestamp"
      [] name = "Timestamp (YYYY-MM-DD HH:MM:SS)" -> "timestamp"
      [] name = "Time" -> "timestamp"
      [] name = "Date" -> "date"
      [] name = "Historic Glucose mg/dL" -> "glucose_mg_dl"
      [] name = "Historic Glucose (mg/dL)" -> "glucose_mg_dl"
      [] name = "Historic Glucose mmol/L" -> "glucose_mmol_l"
      [] name = "Glucose Value (mg/dL)" -> "glucose_mg_dl"
      [] name = "Glucose Value (mmol/L)" -> "glucose_mmol_l"
      [] name = "Record Type" -> "record_type"
      [] name = "Scan Glucose mg/dL" -> "scan_glucose_mg_dl"
      [] name = "Scan Glucose (mg/dL)" -> "scan_glucose_mg_dl"
      [] name = "Scan Glucose mmol/L" -> "scan_glucose_mmol_l"
      [] name = "Strip Glucose mg/dL" -> "strip_glucose_mg_dl"
      [] name = "Strip Glucose (mg/dL)" -> "strip_glucose_mg_dl"
      [] name = "Strip Glucose mmol/L" -> "strip_glucose_mmol_l"
      [] name = "Notes" -> "notes"
      [] name = "Serial Number" -> "serial_number"
      [] name = "Device" -> "device"
      [] name = "Ketone mmol/L" -> "ketone_mmol_l"
      [] name = "Rapid-Acting Insulin (units)" -> "rapid_acting_insulin_units"
      [] name = "Carbohydrates (grams)" -> "carbohydrates_grams"
      [] name = "Long-Acting Insulin (units)" -> "long_acting_insulin_units"
      [] OTHER -> name

\* the rename mapping over the columns the frame has
column_mappings(df) == [k \in df.columns |-> ColumnMapping(k)]

\* pd.to_datetime(text, errors="coerce") on the timestamp texts of the
\* exports considered: the instant a text denotes, NaT for any other text
DatetimeOf(text) ==
    CASE text = "1970-01-02 00:00:00" -> Some(DaySeconds)
      [] text = "1970-01-02 00:00:30" -> Some(DaySeconds + 30)
      [] text = "1970-01-02 00:01:00" -> Some(DaySeconds + 60)
      [] text = "1970-01-02 00:01:30" -> Some(DaySeconds + 90)
      [] text = "1970-01-02 00:02:00" -> Some(DaySeconds + 120)
      [] text = "1970-01-02 00:02:30" -> Some(DaySeconds + 150)
      [] text = "1970-01-02 00:08:00" -> Some(DaySeconds + 480)
      [] text = "1970-01-02 00:16:00" -> Some(DaySeconds + 960)
      [] OTHER -> None

ParseDatetime(cell) == IF IsNone(cell) THEN None ELSE DatetimeOf(Get(cell))

\* mmol/L to mg/dL: x * 18.0182, on values in 1/10000 units
MmolToMgDl(x) == x * 18 + (x * 182) \div 10000

glucose_columns == <<"glucose_mg_dl", "scan_glucose_mg_dl", "strip_glucose_mg_dl">>

\* df[glucose_columns].bfill(axis=1).iloc[:, 0]: the first cell of the row,
\* in the order of glucose_columns, that is not NaN
GlucoseValue(r) ==
    IF NotNa(r.glucose_mg_dl) THEN r.glucose_mg_dl
    ELSE IF NotNa(r.scan_glucose_mg_dl) THEN r.scan_glucose_mg_dl
    ELSE r.strip_glucose_mg_dl

\* glucose_source: "historic", overwritten by "scan" where the scan cell is
\* present, then by "fingerstick" where the strip cell is present
GlucoseSource(r) ==
    LET s0 == "historic"
        s1 == IF "scan_glucose_mg_dl" \in DOMAIN r /\ NotNa(r.scan_glucose_mg_dl)
              THEN "scan" ELSE s0
    IN IF "strip_glucose_mg_dl" \in DOMAIN r /\ NotNa(r.strip_glucose_mg_dl)
       THEN "fingerstick" ELSE s1

\* df[df["glucose_value"].between(20, 600)]
ValidReading(r) ==
    NotNa(r.glucose_value) /\ Between(Get(r.glucose_value), MgDl(20), MgDl(600))

\* drop_duplicates(subset=["timestamp"]): the first row of every timestamp
\* (NaT counts as one timestamp)
drop_duplicates(df) ==
    LET rows == df.rows
        First(i) == \A j \in 1..(i - 1) : rows[j].timestamp # rows[i].timestamp
        RECURSIVE Keep(_)
        Keep(i) == IF i = 0 THEN <<>>
                   ELSE IF First(i) THEN Append(Keep(i - 1), rows[i]) ELSE Keep(i - 1)
    IN Frame(df.columns, Keep(Len(rows)))

\* glucose_value.diff() / timestamp.diff().dt.total_seconds() * 60 of row i:
\* NaN for the first row and next to a NaT
RateOfChange(rows, i) ==
    IF i = 1 \/ IsNone(rows[i].timestamp) \/ IsNone(rows[i - 1].timestamp) THEN None
    ELSE LET dv == Get(rows[i].glucose_value) - Get(rows[i - 1].glucose_value)
             secs == Get(rows[i].timestamp) - Get(rows[i - 1].timestamp)
         IN IF secs = 0 THEN None ELSE Some(Rat(dv * 60, secs * Units))

\* the four .loc assignments over the default "stable", in their order
GlucoseTrend(rate) ==
    LET t0 == "stable"
        t1 == IF NotNa(rate) /\ RatGT(Get(rate), 2) THEN "rising_fast" ELSE t0
        t2 == IF NotNa(rate) /\ RatGE(Get(rate), 1) /\ RatLE(Get(rate), 2)
              THEN "rising" ELSE t1
        t3 == IF NotNa(rate) /\ RatGE(Get(rate), -1) /\ RatLE(Get(rate), -2)
              THEN "falling" ELSE t2
    IN IF NotNa(rate) /\ RatLT(Get(rate), -2) THEN "falling_fast" ELSE t3

\* GlucoseRange with the "very_low" and "low" assignments in the other order
GlucoseRangeLowLast(v) ==
    LET g0 == "normal"
        g1 == IF v < MgDl(54) THEN "very_low" ELSE g0
        g2 == IF v > MgDl(180) THEN "high" ELSE g1
        g3 == IF v < MgDl(70) THEN "low" ELSE g2
    IN IF v > MgDl(250) THEN "very_high" ELSE g3

\* the four .loc assignments over the default "normal", in their order
GlucoseRange(v) ==
    LET g0 == "normal"
        g1 == IF v < MgDl(70) THEN "low" ELSE g0
        g2 == IF v > MgDl(180) THEN "high" ELSE g1
        g3 == IF v < MgDl(54) THEN "very_low" ELSE g2
    IN IF v > MgDl(250) THEN "very_high" ELSE g3

_add_glucose_metrics(df) ==
    LET rows == df.rows
        Metrics(i) ==
            LET r == rows[i]
                rate == RateOfChange(rows, i)
                ts == r.timestamp
            IN [glucose_rate_change |-> rate,
                glucose_trend |-> Some(GlucoseTrend(rate)),
                hour |-> IF NotNa(ts) THEN Some(HourOf(Get(ts))) ELSE None,
                day_of_week |-> IF NotNa(ts) THEN Some(DayOfWeek(Get(ts))) ELSE None,
                is_weekend |-> Some(NotNa(ts) /\ DayOfWeek(Get(ts)) \in {5, 6}),
                glucose_range |-> Some(GlucoseRange(Get(r.glucose_value)))]
    IN Frame(df.columns \cup {"glucose_rate_change", "glucose_trend", "hour",
                              "day_of_week", "is_weekend", "glucose_range"},
             [i \in 1..Len(rows) |-> rows[i] @@ Metrics(i)])

\* clean_and_process after standardize_columns, on the renamed frame: the
\* exception it raises, or the processed frame
CleanFrame(std) ==
    LET df1 == IF "timestamp" \in std.columns
               THEN WithColumn(std, "timestamp",
                        [i \in 1..Len(std.rows) |-> ParseDatetime(std.rows[i].timestamp)])
               ELSE std
        df2 == IF "glucose_mmol_l" \in df1.columns /\ "glucose_mg_dl" \notin df1.columns
               THEN WithColumn(df1, "glucose_mg_dl",
                        [i \in 1..Len(df1.rows) |->
                            IF NotNa(df1.rows[i].glucose_mmol_l)
                            THEN Some(MmolToMgDl(Get(df1.rows[i].glucose_mmol_l)))
                            ELSE None])
               ELSE df1
        df3 == WithColumn(df2, "glucose_value",
                          [i \in 1..Len(df2.rows) |-> GlucoseValue(df2.rows[i])])
        df4 == WithColumn(df3, "glucose_source",
                          [i \in 1..Len(df3.rows) |-> Some(GlucoseSource(df3.rows[i]))])
        df5 == Filter(df4, [i \in 1..Len(df4.rows) |-> ValidReading(df4.rows[i])])
        df6 == sort_values(drop_duplicates(df5), "timestamp")
    IN _add_glucose_metrics(df6)

\* the column lookups of clean_and_process that raise KeyError:
\* df[glucose_columns] when any of the three columns is missing, then
\* drop_duplicates(subset=["timestamp"]) when there is no timestamp column
MissingGlucoseColumn(std) ==
    Range(glucose_columns) \ (std.columns \cup
        (IF "glucose_mmol_l" \in std.columns THEN {"glucose_mg_dl"} ELSE {})) # {}
MissingColumn(std) ==
    \/ MissingGlucoseColumn(std)
    \/ "timestamp" \notin std.columns
MissingKey(std) ==
    IF MissingGlucoseColumn(std) THEN KeyError("glucose_columns") ELSE KeyError("timestamp")

load_csv ==
    /\ raw_data' = (IF NotNa(csv_file) THEN csv_file ELSE raw_data)
    /\ ret' = Returned("load_csv", None, NotNa(csv_file))
    /\ UNCHANGED <<csv_file, processed_data, health_in, glucose_in,
                   apple_health_data, glucose_data, merged_data, features_in,
                   exported>>

standardize_columns ==
    /\ IF IsNone(raw_data)
       THEN /\ ret' = Raised("standardize_columns", None,
                               ValueError("CSV file not loaded. Call load_csv() first."))
            /\ UNCHANGED raw_data
       ELSE /\ raw_data' = Some(rename(Get(raw_data), column_mappings(Get(raw_data))))
            /\ ret' = Returned("standardize_columns", None, None)
    /\ UNCHANGED <<csv_file, processed_data, health_in, glucose_in,
                   apple_health_data, glucose_data, merged_data, features_in,
                   exported>>

clean_and_process ==
    /\ IF IsNone(raw_data)
       THEN /\ ret' = Raised("clean_and_process", None,
                               ValueError("CSV file not loaded. Call load_csv() first."))
            /\ UNCHANGED <<raw_data, processed_data>>
       ELSE LET std == rename(Get(raw_data), column_mappings(Get(raw_data)))
            IN /\ raw_data' = Some(std)
               /\ IF MissingColumn(std)
                  THEN /\ ret' = Raised("clean_and_process", None, MissingKey(std))
                       /\ UNCHANGED processed_data
                  ELSE LET df == CleanFrame(std)
                       IN /\ processed_data' = Some(df)
                          /\ ret' = Returned("clean_and_process", None, df)
    /\ UNCHANGED <<csv_file, health_in, glucose_in,
                   apple_health_data, glucose_data, merged_data, features_in,
                   exported>>

-----------------------------------------------------------------------------
(* HealthDataMerger *)

\* pd.merge_asof, the backward search: the last row of the sorted right keys
\* that is <= t (0: none), given up when it is farther than the tolerance
BackwardIndex(t, keys, tol) ==
    LET at == {j \in 1..Len(keys) : keys[j] <= t}
        b == IF at = {} THEN 0 ELSE Max(at)
    IN IF b # 0 /\ t - keys[b] > tol THEN 0 ELSE b

\* the forward search: the first row of the sorted right keys that is >= t
ForwardIndex(t, keys, tol) ==
    LET at == {j \in 1..Len(keys) : keys[j] >= t}
        f == IF at = {} THEN 0 ELSE Min(at)
    IN IF f # 0 /\ keys[f] - t > tol THEN 0 ELSE f

\* NearestIndex without the tolerance
NearestIndexAnyDistance(t, keys, tol) ==
    LET far == 1 + Max({t} \cup Range(keys)) - Min({t} \cup Range(keys))
        b == BackwardIndex(t, keys, far)
        f == ForwardIndex(t, keys, far)
    IN IF b # 0 /\ f # 0
       THEN (IF t - keys[b] <= keys[f] - t THEN b ELSE f)
       ELSE (IF b # 0 THEN b ELSE f)

\* NearestIndex with the forward row taken when the differences are equal
NearestIndexTieForward(t, keys, tol) ==
    LET b == BackwardIndex(t, keys, tol)
        f == ForwardIndex(t, keys, tol)
    IN IF b # 0 /\ f # 0
       THEN (IF t - keys[b] < keys[f] - t THEN b ELSE f)
       ELSE (IF b # 0 THEN b ELSE f)

\* direction="nearest": of the backward and the forward row the one with the
\* smaller difference, the backward one when the differences are equal
NearestIndex(t, keys, tol) ==
    LET b == BackwardIndex(t, keys, tol)
        f == ForwardIndex(t, keys, tol)
    IN IF b # 0 /\ f # 0
       THEN (IF t - keys[b] <= keys[f] - t THEN b ELSE f)
       ELSE (IF b # 0 THEN b ELSE f)

\* pd.merge_asof(left, right, left_on, right_on, tolerance, "nearest") on
\* frames sorted by their keys: every left row, in order, beside the right
\* row matched to it, or beside NaN in every right column
merge_asof(left, right, left_on, right_on, tol) ==
    LET keys == [j \in 1..Len(right.rows) |-> Get(right.rows[j][right_on])]
        Unmatched == [c \in right.columns |-> None]
        Joined(l) ==
            LET j == NearestIndex(Get(l[left_on]), keys, tol)
            IN l @@ (IF j = 0 THEN Unmatched ELSE right.rows[j])
    IN Frame(left.columns \cup right.columns,
             [i \in 1..Len(left.rows) |-> Joined(left.rows[i])])

\* DataFrame.dropna(subset=[col])
dropna(df, col) == Filter(df, [i \in 1..Len(df.rows) |-> NotNa(df.rows[i][col])])

\* rename(columns={from: to}) leaves every other column as it is
RenameTo(df, from, to) == [k \in df.columns |-> IF k = from THEN to ELSE k]

\* UnmatchedRemoved keeping every row
UnmatchedKept(merged_df) == merged_df

\* merged_df.dropna(subset=["glucose_timestamp"])
UnmatchedRemoved(merged_df) == dropna(merged_df, "glucose_timestamp")

\* (health_timestamp - glucose_timestamp).dt.total_seconds() / 60
TimeDiffMinutes(r) ==
    IF IsNone(r.health_timestamp) \/ IsNone(r.glucose_timestamp) THEN None
    ELSE Some(Rat(Get(r.health_timestamp) - Get(r.glucose_timestamp), 60))

\* align_timestamps from the renames on: the merged frame
AlignFrames(health, glucose, tolerance_minutes) ==
    LET glucose_df == sort_values(
            rename(glucose, RenameTo(glucose, "timestamp", "glucose_timestamp")),
            "glucose_timestamp")
        health_df == sort_values(
            rename(health, RenameTo(health, "startDate", "health_timestamp")),
            "health_timestamp")
        merged_df == merge_asof(health_df, glucose_df, "health_timestamp",
                                "glucose_timestamp", tolerance_minutes * 60)
        matched == UnmatchedRemoved(merged_df)
    IN WithColumn(matched, "time_diff_minutes",
                  [i \in 1..Len(matched.rows) |-> TimeDiffMinutes(matched.rows[i])])

\* merge_asof refuses a key column holding NaT
NullKeys(df, col) == \E i \in 1..Len(df.rows) : IsNone(df.rows[i][col])

MergerFrame == <<csv_file, raw_data, processed_data, health_in, glucose_in, features_in,
                 exported>>

load_apple_health_data ==
    /\ apple_health_data' = health_in
    /\ ret' = Returned("load_apple_health_data", None, None)
    /\ UNCHANGED <<MergerFrame, glucose_data, merged_data>>

load_glucose_data ==
    /\ glucose_data' = glucose_in
    /\ ret' = Returned("load_glucose_data", None, None)
    /\ UNCHANGED <<MergerFrame, apple_health_data, merged_data>>

\* the check of align_timestamps, also refusing a frame without records
NotLoadedOrEmpty(health_data, glucose_frame) ==
    \/ IsNone(health_data) \/ IsNone(glucose_frame)
    \/ Get(health_data).rows = <<>> \/ Get(glucose_frame).rows = <<>>

\* the check align_timestamps makes of its two fields before anything else
NotLoaded(health_data, glucose_frame) == IsNone(health_data) \/ IsNone(glucose_frame)

align_timestamps(tolerance_minutes) ==
    /\ IF NotLoaded(apple_health_data, glucose_data)
       THEN /\ ret' = Raised("align_timestamps", Some(tolerance_minutes),
                               ValueError("Both datasets must be loaded before merging"))
            /\ UNCHANGED merged_data
       ELSE LET health == Get(apple_health_data)
                glucose == Get(glucose_data)
            IN IF "startDate" \notin health.columns
               THEN /\ ret' = Raised("align_timestamps", Some(tolerance_minutes),
                                       ValueError("Apple Health data must have startDate column"))
                    /\ UNCHANGED merged_data
               ELSE IF "timestamp" \notin glucose.columns
               THEN /\ ret' = Raised("align_timestamps", Some(tolerance_minutes),
                                       KeyError("glucose_timestamp"))
                    /\ UNCHANGED merged_data
               ELSE IF NullKeys(health, "startDate") \/ NullKeys(glucose, "timestamp")
               THEN /\ ret' = Raised("align_timestamps", Some(tolerance_minutes),
                                       ValueError("Merge keys contain null values"))
                    /\ UNCHANGED merged_data
               ELSE LET merged_df == AlignFrames(health, glucose, tolerance_minutes)
                    IN /\ merged_data' = Some(merged_df)
                       /\ ret' = Returned("align_timestamps", Some(tolerance_minutes),
                                          merged_df)
    /\ UNCHANGED <<MergerFrame, apple_health_data, glucose_data>>


\* the categorical values of the frames considered, in the ascending order
\* of Python's string comparison (the order Series.mode() sorts by)
StringOrder ==
    <<"Apple Watch", "HKQuantityTypeIdentifierHeartRate",
      "HKQuantityTypeIdentifierStepCount", "falling", "falling_fast", "high",
      "iPhone", "low", "normal", "rising", "rising_fast", "stable",
      "very_high", "very_low">>
StringRank(x) == CHOOSE i \in 1..Len(StringOrder) : StringOrder[i] = x

\* the cells of a column that are not NaN, in row order
Present(rows, col) ==
    LET cells == [i \in 1..Len(rows) |-> rows[i][col]]
        kept == SelectSeq(cells, NotNa)
    IN [i \in 1..Len(kept) |-> Get(kept[i])]

RECURSIVE Sum(_)
Sum(xs) == IF xs = <<>> THEN 0 ELSE xs[1] + Sum(Tail(xs))

Occurrences(xs, v) == Cardinality({i \in 1..Len(xs) : xs[i] = v})

\* Mode taking, of the most frequent values, the one met first in row order
ModeFirstMet(rows, col) ==
    LET xs == Present(rows, col)
        most == Max({Occurrences(xs, v) : v \in Range(xs)})
        first == Min({i \in 1..Len(xs) : Occurrences(xs, xs[i]) = most})
    IN IF xs = <<>> THEN None ELSE Some(xs[first])

\* x.mode().iloc[0] if len(x.mode()) > 0 else None: Series.mode() drops NaN
\* and returns the most frequent values sorted ascending
Mode(rows, col) ==
    LET xs == Present(rows, col)
        most == Max({Occurrences(xs, v) : v \in Range(xs)})
        modes == {v \in Range(xs) : Occurrences(xs, v) = most}
    IN IF xs = <<>> THEN None
       ELSE Some(CHOOSE v \in modes : \A w \in modes : StringRank(v) <= StringRank(w))

\* "mean" of a column over the rows of a bin: NaN when no cell is present
Mean(rows, col) ==
    LET xs == Present(rows, col)
    IN IF xs = <<>> THEN None ELSE Some(Rat(Sum(xs), Len(xs)))

\* "mean" of time_diff_minutes, whose cells are fractions over 60
MeanOfMinutes(rows) ==
    LET xs == Present(rows, "time_diff_minutes")
    IN IF xs = <<>> THEN None
       ELSE Some(Rat(Sum([i \in 1..Len(xs) |-> xs[i].num]), 60 * Len(xs)))

\* WindowOrigin with the bins counted from the epoch
WindowOriginEpoch(first) == 0

\* resample(freq), origin="start_day": the bins are counted from midnight of
\* the day of the first timestamp
WindowOrigin(first) == (first \div DaySeconds) * DaySeconds

\* the left edges of the bins resample lays over [first, last]: closed on
\* the left, labelled by the left edge, every bin from the one holding
\* `first` to the one holding `last`, empty ones included
WindowStarts(first, last, freq) ==
    LET origin == WindowOrigin(first)
        start == origin + ((first - origin) \div freq) * freq
    IN [k \in 1..((last - start) \div freq + 1) |-> start + (k - 1) * freq]

categorical_cols == <<"type", "glucose_range", "glucose_trend", "sourceName">>

\* f"{col}_mode"
ModeColumn(col) ==
    CASE col = "type" -> "type_mode"
      [] col = "glucose_range" -> "glucose_range_mode"
      [] col = "glucose_trend" -> "glucose_trend_mode"
      [] col = "sourceName" -> "sourceName_mode"

\* the categorical columns the frame has
CategoricalIn(df) == {c \in Range(categorical_cols) : c \in df.columns}

\* one row of resample(...).agg(...) with the flattened column names and the
\* categorical modes (glucose_value_std, a square root, is not modelled)
Aggregate(df, start, freq) ==
    LET InBin(r) == /\ NotNa(r.glucose_timestamp)
                    /\ start <= Get(r.glucose_timestamp)
                    /\ Get(r.glucose_timestamp) < start + freq
        bin == SelectSeq(df.rows, InBin)
        numeric == [glucose_timestamp |-> Some(start),
                    glucose_value_mean |-> Mean(bin, "glucose_value"),
                    glucose_value_count |-> Some(Len(Present(bin, "glucose_value"))),
                    value_mean |-> Mean(bin, "value"),
                    value_sum |-> Some(Sum(Present(bin, "value"))),
                    time_diff_minutes_mean |-> MeanOfMinutes(bin)]
        modes == [m \in {ModeColumn(c) : c \in CategoricalIn(df)} |->
                    Mode(bin, CHOOSE c \in CategoricalIn(df) : ModeColumn(c) = m)]
    IN numeric @@ modes

WindowColumns(df) ==
    {"glucose_timestamp", "glucose_value_mean", "glucose_value_count", "value_mean",
     "value_sum", "time_diff_minutes_mean"} \cup {ModeColumn(c) : c \in CategoricalIn(df)}

\* EmptyWindowsRemoved keeping every window
EmptyWindowsKept(windowed_data) == windowed_data

\* windowed_data.dropna(subset=["glucose_value_mean"])
EmptyWindowsRemoved(windowed_data) == dropna(windowed_data, "glucose_value_mean")

\* create_time_windows on the merged frame
TimeWindows(df, window_minutes) ==
    LET freq == window_minutes * 60
        stamps == Range(Present(df.rows, "glucose_timestamp"))
        starts == IF stamps = {} THEN <<>>
                  ELSE WindowStarts(Min(stamps), Max(stamps), freq)
        windowed_data == Frame(WindowColumns(df),
                               [k \in 1..Len(starts) |-> Aggregate(df, starts[k], freq)])
    IN EmptyWindowsRemoved(windowed_data)

create_time_windows(window_minutes) ==
    /\ IF IsNone(merged_data)
       THEN ret' = Raised("create_time_windows", Some(window_minutes),
                          ValueError("Data must be merged before creating time windows"))
       ELSE IF {"glucose_value", "value"} \ Get(merged_data).columns # {}
       THEN ret' = Raised("create_time_windows", Some(window_minutes),
                          KeyError("Column(s) do not exist"))
       ELSE ret' = Returned("create_time_windows", Some(window_minutes),
                            TimeWindows(Get(merged_data), window_minutes))
    /\ UNCHANGED <<MergerFrame, apple_health_data, glucose_data, merged_data>>

\* the feature columns add_contextual_features derives from a timestamp cell
Features(ts) ==
    LET hour == IF NotNa(ts) THEN Some(HourOf(Get(ts))) ELSE None
        day_of_week == IF NotNa(ts) THEN Some(DayOfWeek(Get(ts))) ELSE None
        HourBetween(left, right) == NotNa(hour) /\ Between(Get(hour), left, right)
    IN [hour |-> hour,
        day_of_week |-> day_of_week,
        is_weekend |-> Some(NotNa(day_of_week) /\ Get(day_of_week) \in {5, 6}),
        is_night |-> Some(HourBetween(22, 6)),
        is_morning |-> Some(HourBetween(6, 12)),
        is_afternoon |-> Some(HourBetween(12, 18)),
        is_evening |-> Some(HourBetween(18, 22)),
        likely_meal_time |-> Some(\/ HourBetween(7, 9)
                                  \/ HourBetween(12, 14)
                                  \/ HourBetween(18, 20))]

FeatureColumns == {"hour", "day_of_week", "is_weekend", "is_night", "is_morning",
                   "is_afternoon", "is_evening", "likely_meal_time"}

WithFeatures(df) ==
    LET timestamp_col == IF "glucose_timestamp" \in df.columns
                         THEN "glucose_timestamp" ELSE "health_timestamp"
    IN IF {"glucose_timestamp", "health_timestamp"} \cap df.columns = {} THEN df
       ELSE Frame(df.columns \cup FeatureColumns,
                  [i \in 1..Len(df.rows) |->
                      LET r == df.rows[i]
                          f == Features(r[timestamp_col])
                      IN [c \in (DOMAIN r) \cup FeatureColumns |->
                            IF c \in FeatureColumns THEN f[c] ELSE r[c]]])

add_contextual_features(df) ==
    /\ ret' = Returned("add_contextual_features", Some(df), WithFeatures(df))
    /\ UNCHANGED <<MergerFrame, apple_health_data, glucose_data, merged_data>>

\* df.select_dtypes(include=["number"]).columns of a merged frame
NumericColumns(df) ==
    df.columns \cap {"value", "glucose_mg_dl", "scan_glucose_mg_dl", "strip_glucose_mg_dl",
                     "glucose_value", "glucose_rate_change", "hour", "day_of_week",
                     "time_diff_minutes"}

\* the columns get_correlation_analysis correlates with glucose_value: the
\* numeric ones with more than 10 values.  These are the keys the returned
\* dictionary can have (a column whose correlation is NaN is left out); the
\* coefficients themselves are not computed.
CorrelationKeys(df) ==
    IF "glucose_value" \in df.columns
    THEN {col \in NumericColumns(df) :
             col # "glucose_value" /\ Len(Present(df.rows, col)) > 10}
    ELSE {}

get_correlation_analysis ==
    /\ IF IsNone(merged_data)
       THEN ret' = Raised("get_correlation_analysis", None,
                          ValueError("Data must be merged before correlation analysis"))
       ELSE ret' = Returned("get_correlation_analysis", None,
                            CorrelationKeys(Get(merged_data)))
    /\ UNCHANGED <<MergerFrame, apple_health_data, glucose_data, merged_data>>

\* format_type.lower(), on the format names considered
Lower(format_type) ==
    CASE format_type = "CSV" -> "csv"
      [] format_type = "JSON" -> "json"
      [] OTHER -> format_type

\* export_merged_data looking at the format before it looks at merged_data
export_format_checked_first(format_type) ==
    /\ IF Lower(format_type) \notin {"csv", "parquet", "json"}
       THEN /\ ret' = Raised("export_merged_data", Some(format_type),
                               ValueError("Unsupported format"))
            /\ UNCHANGED exported
       ELSE IF IsNone(merged_data)
       THEN /\ ret' = Raised("export_merged_data", Some(format_type),
                               ValueError("No merged data to export"))
            /\ UNCHANGED exported
       ELSE /\ exported' = Some([format |-> Lower(format_type), data |-> Get(merged_data)])
            /\ ret' = Returned("export_merged_data", Some(format_type), None)
    /\ UNCHANGED <<csv_file, raw_data, processed_data, health_in, glucose_in, features_in,
                   apple_health_data, glucose_data, merged_data>>

\* export_merged_data to one path; the file holds the format and the frame
export_merged_data(format_type) ==
    /\ IF IsNone(merged_data)
       THEN /\ ret' = Raised("export_merged_data", Some(format_type),
                               ValueError("No merged data to export"))
            /\ UNCHANGED exported
       ELSE IF Lower(format_type) \in {"csv", "parquet", "json"}
       THEN /\ exported' = Some([format |-> Lower(format_type), data |-> Get(merged_data)])
            /\ ret' = Returned("export_merged_data", Some(format_type), None)
       ELSE /\ ret' = Raised("export_merged_data", Some(format_type),
                               ValueError("Unsupported format"))
            /\ UNCHANGED exported
    /\ UNCHANGED <<csv_file, raw_data, processed_data, health_in, glucose_in, features_in,
                   apple_health_data, glucose_data, merged_data>>


-----------------------------------------------------------------------------
(* The Libre exports considered *)

\* most rows of an export
MaxRows == 2

FullHeader == {"Device Timestamp", "Historic Glucose mg/dL",
               "Scan Glucose mg/dL", "Strip Glucose mg/dL"}

TimestampTexts == {"1970-01-02 00:00:00", "1970-01-02 00:16:00"}

\* historic cells around every boundary of the validity filter and of the
\* range labels; 16 minutes apart they also give the rates 1 (54 to 70),
\* 2 (218 to 250), just under 1, just over 2, and their negatives
HistoricCells ==
    {Some(v) : v \in {MgDl(20) - 1, MgDl(20), MgDl(54) - 1, MgDl(54),
                      MgDl(70) - 1, MgDl(70), MgDl(180), MgDl(180) + 1,
                      MgDl(218), MgDl(250), MgDl(250) + 1, MgDl(600),
                      MgDl(600) + 1}}

\* the three glucose cells of a row: a historic reading alone, or any
\* combination of present and absent historic, scan and strip cells
GlucoseCells ==
    {<<h, None, None>> : h \in HistoricCells}
    \cup ({None, Some(MgDl(100))} \X {None, Some(MgDl(110))} \X {None, Some(MgDl(120))})

FullRows ==
    {[c \in FullHeader |->
        CASE c = "Device Timestamp" -> Some(t)
          [] c = "Historic Glucose mg/dL" -> g[1]
          [] c = "Scan Glucose mg/dL" -> g[2]
          [] c = "Strip Glucose mg/dL" -> g[3]] :
     t \in TimestampTexts, g \in GlucoseCells}

SeqsUpTo(S, n) == UNION {[1..k -> S] : k \in 0..n}

\* exports in other layouts: an unreadable timestamp among the rows,
\* historic mmol/L beside mg/dL scan and strip columns, mmol/L only, no scan
\* or strip column, no timestamp column, no glucose column at all
OtherExports ==
    {Frame({"Device Timestamp", "Notes"},
           <<[c \in {"Device Timestamp", "Notes"} |->
               IF c = "Device Timestamp" THEN Some("1970-01-02 00:00:00") ELSE None]>>),
     Frame(FullHeader,
           <<[c \in FullHeader |->
               CASE c = "Device Timestamp" -> Some("not a date")
                 [] c = "Historic Glucose mg/dL" -> Some(MgDl(100))
                 [] OTHER -> None],
             [c \in FullHeader |->
               CASE c = "Device Timestamp" -> Some("1970-01-02 00:00:00")
                 [] c = "Historic Glucose mg/dL" -> Some(MgDl(90))
                 [] OTHER -> None],
             [c \in FullHeader |->
               CASE c = "Device Timestamp" -> None
                 [] c = "Historic Glucose mg/dL" -> Some(MgDl(80))
                 [] OTHER -> None]>>),
     Frame({"Device Timestamp", "Historic Glucose mmol/L",
            "Scan Glucose mg/dL", "Strip Glucose mg/dL"},
           <<[c \in {"Device Timestamp", "Historic Glucose mmol/L",
                     "Scan Glucose mg/dL", "Strip Glucose mg/dL"} |->
               CASE c = "Device Timestamp" -> Some("1970-01-02 00:00:00")
                 [] c = "Historic Glucose mmol/L" -> Some(55000)
                 [] OTHER -> None]>>),
     Frame({"Device Timestamp", "Historic Glucose mmol/L"},
           <<[c \in {"Device Timestamp", "Historic Glucose mmol/L"} |->
               IF c = "Device Timestamp" THEN Some("1970-01-02 00:00:00") ELSE Some(55000)]>>),
     Frame({"Device Timestamp", "Historic Glucose mg/dL"},
           <<[c \in {"Device Timestamp", "Historic Glucose mg/dL"} |->
               IF c = "Device Timestamp" THEN Some("1970-01-02 00:00:00") ELSE Some(MgDl(100))]>>),
     Frame({"Historic Glucose mg/dL", "Scan Glucose mg/dL", "Strip Glucose mg/dL"},
           <<[c \in {"Historic Glucose mg/dL", "Scan Glucose mg/dL",
                     "Strip Glucose mg/dL"} |->
               IF c = "Historic Glucose mg/dL" THEN Some(MgDl(100)) ELSE None]>>)}

CsvFiles ==
    {None} \cup {Some(f) : f \in OtherExports}
    \cup {Some(Frame(FullHeader, rows)) : rows \in SeqsUpTo(FullRows, MaxRows)}

NoCall == [op |-> "none", arg |-> None, raised |-> None, value |-> None]

InitGlucose ==
    /\ csv_file \in CsvFiles
    /\ raw_data = None
    /\ processed_data = None
    /\ health_in = None
    /\ glucose_in = None
    /\ apple_health_data = None
    /\ glucose_data = None
    /\ merged_data = None
    /\ features_in = None
    /\ exported = None
    /\ ret = NoCall

NextGlucose == load_csv \/ standardize_columns \/ clean_and_process

SpecGlucose == InitGlucose /\ [][NextGlucose]_vars

-----------------------------------------------------------------------------
(* The frames handed to the merger *)

\* most records of the Apple Health frame, most readings of the glucose frame
MaxHealth == 2
MaxGlucose == 2
\* largest tolerance, in minutes
MaxTol == 1

Tolerances == 0..MaxTol
\* one window size that divides the day and one that does not
WindowSizes == {1, 7}

HealthColumns == {"type", "sourceName", "value", "unit", "startDate"}

\* the instants of the health records: 00:00:30, 00:01:00 and 00:02:00 of
\* 1970-01-02; the glucose readings are at 00:00:00, 00:01:00 and 00:02:00
HealthInstants == {DaySeconds + 30, DaySeconds + 60, DaySeconds + 120}

\* the records extract_health_records yields (creationDate and endDate, which
\* no operation reads, are left out)
HealthRows ==
    {[type |-> Some("HKQuantityTypeIdentifierStepCount"), sourceName |-> Some("iPhone"),
      value |-> Some(10), unit |-> Some("count"), startDate |-> Some(t)] :
        t \in HealthInstants}
    \cup
    {[type |-> Some("HKQuantityTypeIdentifierHeartRate"), sourceName |-> Some("Apple Watch"),
      value |-> Some(70), unit |-> Some("count/min"), startDate |-> Some(t)] :
        t \in HealthInstants}

\* the frames of up to MaxHealth records, and the frame without columns that
\* pd.DataFrame(records) is for an export without records
HealthFrames ==
    {Frame(HealthColumns, rows) : rows \in SeqsUpTo(HealthRows, MaxHealth)}
    \cup {Frame({}, <<>>)}

\* the glucose frames are what clean_and_process returns for exports with
\* these rows
MergerExportRows ==
    {[c \in FullHeader |->
        CASE c = "Device Timestamp" -> Some(t)
          [] c = "Historic Glucose mg/dL" -> Some(v)
          [] OTHER -> None] :
     t \in {"1970-01-02 00:00:00", "1970-01-02 00:01:00", "1970-01-02 00:02:00"},
     v \in {MgDl(60), MgDl(100)}}

GlucoseFrames ==
    {CleanFrame(rename(Frame(FullHeader, rows), column_mappings(Frame(FullHeader, rows)))) :
        rows \in SeqsUpTo(MergerExportRows, MaxGlucose)}

Init ==
    /\ csv_file = None
    /\ raw_data = None
    /\ processed_data = None
    /\ health_in \in {Some(f) : f \in HealthFrames}
    /\ glucose_in \in {Some(f) : f \in GlucoseFrames}
    /\ apple_health_data = None
    /\ glucose_data = None
    /\ merged_data = None
    /\ features_in = None
    /\ exported = None
    /\ ret = NoCall

Next ==
    \/ load_apple_health_data
    \/ load_glucose_data
    \/ \E T \in Tolerances : align_timestamps(T)
    \/ \E W \in WindowSizes : create_time_windows(W)

Spec == Init /\ [][Next]_vars

\* the object a call hands back to its caller: align_timestamps returns the
\* object it has just stored in merged_data, clean_and_process the object it
\* has just stored in processed_data; create_time_windows and
\* add_contextual_features return frames no field holds
ReturnsMergedData(op) == op = "align_timestamps"
ReturnsProcessedData(op) == op = "clean_and_process"

\* the caller changes in place the frame the last call returned to it (it
\* drops every row): a field holding that very object changes with it
Emptied(df) == Frame(df.columns, <<>>)

caller_changes_returned ==
    /\ ret.op \in {"clean_and_process", "align_timestamps", "create_time_windows",
                   "add_contextual_features"}
    /\ IsNone(ret.raised)
    /\ ret.value.rows # <<>>
    /\ ret' = Returned("caller_changes_returned", Some(ret.op), Emptied(ret.value))
    /\ merged_data' = IF ReturnsMergedData(ret.op)
                      THEN Some(Emptied(ret.value)) ELSE merged_data
    /\ processed_data' = IF ReturnsProcessedData(ret.op)
                         THEN Some(Emptied(ret.value)) ELSE processed_data
    /\ UNCHANGED <<csv_file, raw_data, health_in, glucose_in, features_in, exported,
                   apple_health_data, glucose_data>>

\* the caller changes in place a frame it has handed to load_apple_health_data
\* or load_glucose_data (it drops every row): the fields hold copies
caller_changes_input ==
    /\ \/ /\ Get(health_in).rows # <<>>
          /\ health_in' = Some(Emptied(Get(health_in)))
          /\ ret' = Returned("caller_changes_input", Some("health"), None)
          /\ UNCHANGED glucose_in
       \/ /\ Get(glucose_in).rows # <<>>
          /\ glucose_in' = Some(Emptied(Get(glucose_in)))
          /\ ret' = Returned("caller_changes_input", Some("glucose"), None)
          /\ UNCHANGED health_in
    /\ UNCHANGED <<csv_file, raw_data, processed_data, features_in, exported,
                   apple_health_data, glucose_data, merged_data>>

\* sessions of calls on one HealthDataMerger, every operation that reads or
\* writes merged_data included, on frames of at most one record
FormatTypes == {"csv", "CSV", "parquet", "JSON", "xml"}

CallHealthFrames == {f \in HealthFrames : Len(f.rows) <= 1}
CallGlucoseFrames == {f \in GlucoseFrames : Len(f.rows) <= 1}

InitCalls ==
    /\ csv_file = None
    /\ raw_data = None
    /\ processed_data = None
    /\ health_in \in {Some(f) : f \in CallHealthFrames}
    /\ glucose_in \in {Some(f) : f \in CallGlucoseFrames}
    /\ apple_health_data = None
    /\ glucose_data = None
    /\ merged_data = None
    /\ features_in = None
    /\ exported = None
    /\ ret = NoCall

NextCalls ==
    \/ load_apple_health_data
    \/ load_glucose_data
    \/ \E T \in Tolerances : align_timestamps(T)
    \/ \E W \in WindowSizes : create_time_windows(W)
    \/ get_correlation_analysis
    \/ \E format_type \in FormatTypes : export_merged_data(format_type)

SpecCalls == InitCalls /\ [][NextCalls]_vars

\* a whole pipeline, the caller's own changes to the frames it holds
\* included: one export of one reading, one health record, one glucose reading
PipelineExports ==
    {Frame(FullHeader, <<r>>) : r \in {x \in MergerExportRows :
        x["Historic Glucose mg/dL"] = Some(MgDl(100))}}

PipelineHealthFrames ==
    {f \in CallHealthFrames :
        /\ Len(f.rows) = 1
        /\ f.rows[1].startDate = Some(DaySeconds + 60)}

PipelineGlucoseFrames ==
    {f \in CallGlucoseFrames :
        /\ Len(f.rows) = 1
        /\ f.rows[1].glucose_value = Some(MgDl(100))
        /\ f.rows[1].timestamp = Some(DaySeconds + 60)}

InitPipeline ==
    /\ csv_file \in {Some(f) : f \in PipelineExports}
    /\ raw_data = None
    /\ processed_data = None
    /\ health_in \in {Some(f) : f \in PipelineHealthFrames}
    /\ glucose_in \in {Some(f) : f \in PipelineGlucoseFrames}
    /\ apple_health_data = None
    /\ glucose_data = None
    /\ merged_data = None
    /\ features_in = None
    /\ exported = None
    /\ ret = NoCall

NextPipeline ==
    \/ load_csv
    \/ standardize_columns
    \/ clean_and_process
    \/ load_apple_health_data
    \/ load_glucose_data
    \/ \E T \in Tolerances : align_timestamps(T)
    \/ \E W \in WindowSizes : create_time_windows(W)
    \/ NotNa(merged_data) /\ add_contextual_features(Get(merged_data))
    \/ caller_changes_returned
    \/ caller_changes_input

SpecPipeline == InitPipeline /\ [][NextPipeline]_vars

\* most rows of a frame handed to add_contextual_features on its own
MaxFeatureRows == 1

\* every hour of a Friday and of a Saturday, on the hour and a minute before
\* the next
FeatureInstants ==
    {d * DaySeconds + h * 3600 + m * 60 : d \in {1, 2}, h \in 0..23, m \in {0, 59}}

FeatureCells == {None} \cup {Some(t) : t \in FeatureInstants}

\* frames with a glucose_timestamp column, with a health_timestamp column,
\* with both (the health record at noon of the Friday), and with neither
FeatureFrames ==
    {Frame({"glucose_timestamp"}, rows) :
        rows \in SeqsUpTo({[glucose_timestamp |-> c] : c \in FeatureCells}, MaxFeatureRows)}
    \cup
    {Frame({"health_timestamp"}, rows) :
        rows \in SeqsUpTo({[health_timestamp |-> c] : c \in FeatureCells}, MaxFeatureRows)}
    \cup
    {Frame({"glucose_timestamp", "health_timestamp"}, rows) :
        rows \in SeqsUpTo({[glucose_timestamp |-> c,
                            health_timestamp |-> Some(DaySeconds + 12 * 3600)] :
                              c \in FeatureCells}, MaxFeatureRows)}
    \cup {Frame({"value"}, <<[value |-> Some(1)]>>)}

InitFeatures ==
    /\ csv_file = None
    /\ raw_data = None
    /\ processed_data = None
    /\ health_in = None
    /\ glucose_in = None
    /\ apple_health_data = None
    /\ glucose_data = None
    /\ merged_data = None
    /\ features_in \in {Some(f) : f \in FeatureFrames}
    /\ exported = None
    /\ ret = NoCall

NextFeatures == add_contextual_features(Get(features_in))

SpecFeatures == InitFeatures /\ [][NextFeatures]_vars


-----------------------------------------------------------------------------
(* Claims about the glucose normalizer, checked under SpecGlucose *)

Readings == IF IsNone(processed_data) THEN <<>> ELSE Get(processed_data).rows

\* the trend the specification gives a rate of change
ClaimedTrend(rate) ==
    IF IsNone(rate) THEN "stable"
    ELSE LET r == Get(rate)
         IN CASE RatGT(r, 2) -> "rising_fast"
              [] RatGE(r, 1) /\ RatLE(r, 2) -> "rising"
              [] RatGE(r, -2) /\ RatLE(r, -1) -> "falling"
              [] RatLT(r, -2) -> "falling_fast"
              [] OTHER -> "stable"

\* C4: every reading produced by clean_and_process has the trend its rate of
\* change r determines: r > 2 rising_fast, 1 <= r <= 2 rising, -2 <= r <= -1
\* falling, r < -2 falling_fast, any other r and the undefined rate stable.
C4_TrendFollowsRate ==
    \A i \in 1..Len(Readings) :
        Readings[i].glucose_trend = Some(ClaimedTrend(Readings[i].glucose_rate_change))

\* the labels whose stated condition the value v meets
ClaimedRanges(v) ==
    {l \in {"very_low", "low", "normal", "high", "very_high"} :
        \/ l = "very_low" /\ v < MgDl(54)
        \/ l = "low" /\ MgDl(54) <= v /\ v < MgDl(70)
        \/ l = "normal" /\ MgDl(70) <= v /\ v <= MgDl(180)
        \/ l = "high" /\ MgDl(180) < v /\ v <= MgDl(250)
        \/ l = "very_high" /\ v > MgDl(250)}

\* C5: every reading produced by clean_and_process has a value in [20, 600]
\* and carries the one label among very_low (v < 54), low (54 <= v < 70),
\* normal (70 <= v <= 180), high (180 < v <= 250), very_high (v > 250) whose
\* condition its value meets.
C5_RangeFollowsValue ==
    \A i \in 1..Len(Readings) :
        LET v == Get(Readings[i].glucose_value)
        IN /\ MgDl(20) <= v /\ v <= MgDl(600)
           /\ ClaimedRanges(v) = {Get(Readings[i].glucose_range)}

\* readings of exactly 70 mg/dL and of just under 54 mg/dL were processed
C5_Witness ==
    /\ ret.op = "clean_and_process" /\ IsNone(ret.raised)
    /\ \E i, j \in 1..Len(Readings) :
          /\ Get(Readings[i].glucose_value) = MgDl(70)
          /\ Readings[i].glucose_range = Some("normal")
          /\ Get(Readings[j].glucose_value) = MgDl(54) - 1
          /\ Readings[j].glucose_range = Some("very_low")

\* the first present cell among historic, scan, strip and the name of its column
ClaimedSupplier(r) ==
    IF NotNa(r.glucose_mg_dl) THEN <<r.glucose_mg_dl, "historic">>
    ELSE IF NotNa(r.scan_glucose_mg_dl) THEN <<r.scan_glucose_mg_dl, "scan">>
    ELSE <<r.strip_glucose_mg_dl, "fingerstick">>

\* C6: every row kept by clean_and_process has as glucose_value the first
\* present value among the historic, scan and strip columns, and as
\* glucose_source the name of the column that supplied that value.
C6_SourceNamesSupplier ==
    \A i \in 1..Len(Readings) :
        /\ Readings[i].glucose_value = ClaimedSupplier(Readings[i])[1]
        /\ Readings[i].glucose_source = Some(ClaimedSupplier(Readings[i])[2])

-----------------------------------------------------------------------------
(* Claims about the merger, checked under Spec *)

\* align_timestamps has just returned; the loaded frames are its inputs
Aligned == ret.op = "align_timestamps" /\ IsNone(ret.raised)
AlignedRows == IF Aligned THEN ret.value.rows ELSE <<>>
ToleranceSeconds == 60 * Get(ret.arg)
HealthLoaded == Get(apple_health_data).rows
GlucoseLoaded == Get(glucose_data).rows

\* C1: every record align_timestamps(T) returns has time_diff_minutes equal
\* to health_timestamp - glucose_timestamp of its pair, in minutes, and
\* |time_diff_minutes| <= T.
C1_WithinTolerance ==
    \A i \in 1..Len(AlignedRows) :
        LET r == AlignedRows[i]
            d == Get(r.time_diff_minutes)
        IN /\ d.num * 60 = (Get(r.health_timestamp) - Get(r.glucose_timestamp)) * d.den
           /\ Abs(d.num) <= Get(ret.arg) * d.den

\* a record was matched at exactly the tolerance, one minute away
C1_Witness ==
    /\ Aligned /\ Get(ret.arg) = 1
    /\ \E i \in 1..Len(AlignedRows) :
          Abs(Get(AlignedRows[i].health_timestamp)
              - Get(AlignedRows[i].glucose_timestamp)) = 60

\* the distance from the instant t to the nearest loaded glucose reading
Distances(t) == {Abs(t - Get(GlucoseLoaded[j].timestamp)) : j \in 1..Len(GlucoseLoaded)}
HasNearReading(h) ==
    /\ GlucoseLoaded # <<>>
    /\ Min(Distances(Get(h.startDate))) <= ToleranceSeconds

\* the health record and the glucose reading an aligned record is made of
HealthOf(r) == [c \in HealthColumns |->
                   IF c = "startDate" THEN r.health_timestamp ELSE r[c]]
GlucoseOf(r) == [c \in DOMAIN GlucoseLoaded[1] |->
                    IF c = "timestamp" THEN r.glucose_timestamp ELSE r[c]]

\* C2: align_timestamps emits one record for each health record whose nearest
\* glucose reading is within the tolerance and none for any other health
\* record, and every record it emits carries a whole glucose reading.
C2_OneRecordPerMatch ==
    Aligned =>
        /\ \A h \in Range(HealthLoaded) \cup {HealthOf(AlignedRows[i]) : i \in 1..Len(AlignedRows)} :
              Cardinality({i \in 1..Len(AlignedRows) : HealthOf(AlignedRows[i]) = h})
              = IF HasNearReading(h)
                THEN Cardinality({k \in 1..Len(HealthLoaded) : HealthLoaded[k] = h})
                ELSE 0
        /\ \A i \in 1..Len(AlignedRows) :
              \E j \in 1..Len(GlucoseLoaded) : GlucoseOf(AlignedRows[i]) = GlucoseLoaded[j]

\* of two health records one was matched and the other dropped
C2_Witness ==
    /\ Aligned
    /\ Len(HealthLoaded) = 2 /\ Len(AlignedRows) = 1
    /\ GlucoseLoaded # <<>>

\* the glucose reading of every aligned record is at the least distance from
\* the health timestamp, and is the earliest reading at that distance
C3_NearestState ==
    \A i \in 1..Len(AlignedRows) :
        LET t == Get(AlignedRows[i].health_timestamp)
            g == Get(AlignedRows[i].glucose_timestamp)
            nearest == {Get(GlucoseLoaded[j].timestamp) : j \in
                           {k \in 1..Len(GlucoseLoaded) :
                               Abs(t - Get(GlucoseLoaded[k].timestamp)) = Min(Distances(t))}}
        IN g = Min(nearest)

\* C3: every aligned record holds the glucose reading nearest to its health
\* timestamp, the earlier one when two are equally near; and calling
\* align_timestamps again on the same loaded frames with the same tolerance
\* returns the same frame and leaves merged_data as it was.
C3_NearestEarlierOnTies ==
    /\ []C3_NearestState
    /\ [][(Aligned /\ ret'.op = "align_timestamps" /\ ret'.arg = ret.arg)
            => (ret' = ret /\ merged_data' = merged_data)]_vars

\* a health record midway between two readings was matched to the earlier
C3_Witness ==
    /\ Aligned
    /\ \E i \in 1..Len(AlignedRows) :
          LET t == Get(AlignedRows[i].health_timestamp)
          IN /\ Get(AlignedRows[i].glucose_timestamp) = t - 60
             /\ \E j \in 1..Len(GlucoseLoaded) : Get(GlucoseLoaded[j].timestamp) = t + 60

\* create_time_windows has just returned; merged_data is the frame it read
Windowed == ret.op = "create_time_windows" /\ IsNone(ret.raised)
Windows == IF Windowed THEN ret.value.rows ELSE <<>>
WindowSeconds == 60 * Get(ret.arg)
MergedRows == Get(merged_data).rows
\* the aligned records whose glucose_timestamp is in [s, s + W), in row order
InWindow(s) ==
    SelectSeq(MergedRows, LAMBDA r : /\ s <= Get(r.glucose_timestamp)
                                     /\ Get(r.glucose_timestamp) < s + WindowSeconds)

\* C7: every window create_time_windows returns has glucose_value_count >= 1
\* and a glucose_value_mean, and holds an aligned record; no window without a
\* glucose observation is returned.
C7_WindowsHoldGlucose ==
    \A k \in 1..Len(Windows) :
        /\ Get(Windows[k].glucose_value_count) >= 1
        /\ NotNa(Windows[k].glucose_value_mean)
        /\ InWindow(Get(Windows[k].glucose_timestamp)) # <<>>

\* two windows were returned with an empty window's width between them
C7_Witness ==
    /\ Windowed /\ Len(Windows) = 2
    /\ Get(Windows[2].glucose_timestamp) - Get(Windows[1].glucose_timestamp)
       = 2 * WindowSeconds

\* every aligned record lies in exactly one returned window, the returned
\* windows are distinct, and their counts sum to the number of records
WindowsPartition ==
    /\ \A i \in 1..Len(MergedRows) :
          Cardinality({k \in 1..Len(Windows) :
              /\ Get(Windows[k].glucose_timestamp) <= Get(MergedRows[i].glucose_timestamp)
              /\ Get(MergedRows[i].glucose_timestamp)
                     < Get(Windows[k].glucose_timestamp) + WindowSeconds}) = 1
    /\ \A k, l \in 1..Len(Windows) :
          k < l => Get(Windows[k].glucose_timestamp) + WindowSeconds
                       <= Get(Windows[l].glucose_timestamp)
    /\ Sum([k \in 1..Len(Windows) |-> Get(Windows[k].glucose_value_count)])
       = Len(MergedRows)

\* C8 as stated: the windows partition the aligned records by
\* glucose_timestamp and every window start is a multiple of W counted from
\* the epoch.
C8_EpochAlignedWindows ==
    Windowed =>
        /\ WindowsPartition
        /\ \A k \in 1..Len(Windows) :
              Get(Windows[k].glucose_timestamp) % WindowSeconds = 0

\* midnight of the day of the earliest glucose_timestamp of the aligned records
FirstMidnight ==
    LET first == Min({Get(MergedRows[i].glucose_timestamp) : i \in 1..Len(MergedRows)})
    IN first - (first % DaySeconds)

\* C8, amended: the windows partition the aligned records by
\* glucose_timestamp and every window start is a multiple of W counted from
\* midnight of the day of the earliest glucose_timestamp.
C8_DayAlignedWindows ==
    Windowed =>
        /\ WindowsPartition
        /\ \A k \in 1..Len(Windows) :
              (Get(Windows[k].glucose_timestamp) - FirstMidnight) % WindowSeconds = 0

\* windows of 7 minutes were returned, starting off the epoch's multiples of 7
C8_Witness ==
    /\ Windowed /\ Get(ret.arg) = 7
    /\ Len(Windows) >= 1
    /\ Get(Windows[1].glucose_timestamp) % WindowSeconds # 0

\* the values of a categorical column in a window, in window order, the most
\* frequent among them, and the one of those met first
ValuesIn(s, col) == Present(InWindow(s), col)
MostFrequent(xs) ==
    {v \in Range(xs) : \A w \in Range(xs) : Occurrences(xs, v) >= Occurrences(xs, w)}
FirstMet(xs) == xs[Min({i \in 1..Len(xs) : xs[i] \in MostFrequent(xs)})]

\* C9 as stated: every *_mode of a window is a most frequent value of its
\* column among the window's records, the first met in window order when
\* several are most frequent.
C9_ModeFirstMet ==
    \A k \in 1..Len(Windows) : \A col \in Range(categorical_cols) :
        LET xs == ValuesIn(Get(Windows[k].glucose_timestamp), col)
        IN Windows[k][ModeColumn(col)] = Some(FirstMet(xs))

\* C9, amended: every *_mode of a window is a most frequent value of its
\* column among the window's records, the least in ascending string order
\* when several are most frequent.
C9_ModeLeast ==
    \A k \in 1..Len(Windows) : \A col \in Range(categorical_cols) :
        LET xs == ValuesIn(Get(Windows[k].glucose_timestamp), col)
            m == Get(Windows[k][ModeColumn(col)])
        IN /\ m \in MostFrequent(xs)
           /\ \A v \in MostFrequent(xs) : StringRank(m) <= StringRank(v)

\* a window of two records of different types, the first of the larger type
C9_Witness ==
    /\ Windowed
    /\ \E k \in 1..Len(Windows) :
          LET xs == ValuesIn(Get(Windows[k].glucose_timestamp), "type")
          IN /\ Len(xs) = 2 /\ xs[1] # xs[2]
             /\ Windows[k].type_mode = Some(xs[2])

-----------------------------------------------------------------------------
(* Claims about add_contextual_features, checked under SpecFeatures *)

Featured == ret.op = "add_contextual_features" /\ IsNone(ret.raised)
FeaturedRows == IF Featured THEN ret.value.rows ELSE <<>>

\* the timestamp cell add_contextual_features reads
TimestampOf(r) ==
    IF "glucose_timestamp" \in DOMAIN r THEN r.glucose_timestamp
    ELSE IF "health_timestamp" \in DOMAIN r THEN r.health_timestamp
    ELSE None

\* C10: is_night of every record given to add_contextual_features is true
\* exactly when the hour of its timestamp is 22, 23 or one of 0..6.
C10_NightWrapsMidnight ==
    \A i \in 1..Len(FeaturedRows) :
        LET ts == TimestampOf(FeaturedRows[i])
        IN NotNa(ts) =>
              FeaturedRows[i].is_night
              = Some(((Get(ts) % DaySeconds) \div 3600) \in (22..23) \cup (0..6))

-----------------------------------------------------------------------------
(* Claims about the failures of align_timestamps, checked under Spec *)

\* the step is a call of align_timestamps
AlignCall == ret'.op = "align_timestamps"
\* the call failed: an exception, no aligned output, merged_data as it was
AlignFailed == NotNa(ret'.raised) /\ IsNone(ret'.value) /\ merged_data' = merged_data
\* before the call: a field was never loaded; both are loaded and one of them
\* holds no records
Unset == IsNone(apple_health_data) \/ IsNone(glucose_data)
EmptyLoaded ==
    /\ ~Unset
    /\ Get(apple_health_data).rows = <<>> \/ Get(glucose_data).rows = <<>>

\* C11 as stated: align_timestamps fails, returning nothing and leaving
\* merged_data as it was, whenever a field is unset or holds no records.
C11_UnsetOrEmptyRejected ==
    [][(AlignCall /\ (Unset \/ EmptyLoaded)) => AlignFailed]_vars

\* C11, amended: align_timestamps fails with the ValueError of its first check,
\* returning nothing and leaving merged_data as it was, whenever a field is
\* unset; loaded frames without records are not refused by that check: when
\* the health frame has its startDate column the call returns an aligned frame
\* without records and stores it in merged_data.
C11_UnsetRejected ==
    [][AlignCall =>
          /\ Unset =>
                /\ AlignFailed
                /\ ret'.raised = Some(ValueError("Both datasets must be loaded before merging"))
          /\ EmptyLoaded =>
                /\ ret'.raised # Some(ValueError("Both datasets must be loaded before merging"))
                /\ "startDate" \in Get(apple_health_data).columns =>
                      /\ IsNone(ret'.raised)
                      /\ ret'.value.rows = <<>>
                      /\ merged_data' = Some(ret'.value)]_vars

\* align_timestamps was refused with the health frame loaded and the glucose
\* frame never loaded
C11_Witness ==
    /\ ret.op = "align_timestamps"
    /\ ret.raised = Some(ValueError("Both datasets must be loaded before merging"))
    /\ NotNa(apple_health_data) /\ IsNone(glucose_data)
    /\ IsNone(merged_data)

-----------------------------------------------------------------------------
(* Claims about the failures of clean_and_process, checked under SpecGlucose *)

\* clean_and_process was called on a loaded export; raw_data then holds the
\* export under its mapped column names
Cleaned == ret.op = "clean_and_process" /\ NotNa(raw_data)
MappedColumns == Get(raw_data).columns
\* the historic (mg/dL or mmol/L), scan and fingerstick columns after mapping
MappedGlucoseColumns ==
    MappedColumns \cap {"glucose_mg_dl", "glucose_mmol_l",
                        "scan_glucose_mg_dl", "strip_glucose_mg_dl"}

\* C12: clean_and_process on a loaded export fails exactly when none of the
\* historic, scan and fingerstick columns is present after the mapping, and
\* every glucose_value it returns is a value of one of those columns of its row.
C12_FailsOnlyWithoutGlucoseColumns ==
    Cleaned =>
        /\ NotNa(ret.raised) <=> (MappedGlucoseColumns = {})
        /\ \A i \in 1..Len(Readings) :
              \E c \in Range(glucose_columns) :
                  Readings[i].glucose_value = Readings[i][c]

-----------------------------------------------------------------------------
(* Claims about the order of calls on a HealthDataMerger, checked under    *)
(* SpecCalls                                                               *)

\* the step is a call of an operation that reads merged_data
MergedDataCall ==
    ret'.op \in {"create_time_windows", "get_correlation_analysis", "export_merged_data"}
\* the step is a call of align_timestamps that returned
AlignSucceeded == ret'.op = "align_timestamps" /\ IsNone(ret'.raised)
\* the error with which each of them refuses to run before the merge
PreconditionError(op) ==
    CASE op = "create_time_windows" ->
            ValueError("Data must be merged before creating time windows")
      [] op = "get_correlation_analysis" ->
            ValueError("Data must be merged before correlation analysis")
      [] op = "export_merged_data" ->
            ValueError("No merged data to export")

\* merged_data holds a frame exactly from the first align_timestamps that
\* returned: it is None at first, only such a call changes it, such a call
\* leaves a frame in it, and a frame never gives way to None
MergedSinceAligned ==
    /\ (merged_data' # merged_data) => AlignSucceeded
    /\ AlignSucceeded => NotNa(merged_data')
    /\ NotNa(merged_data) => NotNa(merged_data')

\* C13: create_time_windows, get_correlation_analysis and export_merged_data
\* raise their precondition error exactly when no align_timestamps has
\* returned before them (that is, by MergedSinceAligned, exactly when
\* merged_data is None); a failing call leaves apple_health_data,
\* glucose_data and merged_data as they were; and only an align_timestamps
\* that returns changes merged_data.
C13_MergeBeforeUse ==
    /\ IsNone(merged_data)
    /\ [][/\ MergedSinceAligned
          /\ MergedDataCall =>
                ((ret'.raised = Some(PreconditionError(ret'.op))) <=> IsNone(merged_data))
          /\ NotNa(ret'.raised) =>
                UNCHANGED <<apple_health_data, glucose_data, merged_data>>]_vars

\* export_merged_data was refused with both frames loaded although
\* align_timestamps has not returned yet
C13_Witness ==
    /\ ret.op = "export_merged_data"
    /\ ret.raised = Some(PreconditionError("export_merged_data"))
    /\ NotNa(apple_health_data) /\ NotNa(glucose_data)

-----------------------------------------------------------------------------
(* Claims about shared collections, checked under SpecPipeline *)

\* the step is a change the caller makes to a frame it holds
CallerStep == ret'.op \in {"caller_changes_returned", "caller_changes_input"}

\* every operation leaves the collection it works on as it was
InputsLeftAlone ==
    /\ ret'.op \in {"standardize_columns", "clean_and_process"} => raw_data' = raw_data
    /\ ret'.op \in {"load_apple_health_data", "load_glucose_data"} =>
          UNCHANGED <<health_in, glucose_in>>
    /\ ret'.op = "align_timestamps" => UNCHANGED <<apple_health_data, glucose_data>>
    /\ ret'.op \in {"create_time_windows", "add_contextual_features"} =>
          merged_data' = merged_data

\* no change the caller makes to a frame it holds reaches a field of the
\* objects, so that no later operation can see it
ReturnedFramesFresh ==
    CallerStep =>
        UNCHANGED <<raw_data, processed_data, apple_health_data, glucose_data, merged_data>>

\* C14: no operation changes the collection it is given or works on, and the
\* frame an operation returns is held by no field of the objects: a change the
\* caller makes to a frame it holds changes no field.
C14_NoSharedCollections ==
    [][InputsLeftAlone /\ ReturnedFramesFresh]_vars

=============================================================================
